---- MODULE Spec2Model ----
(***************************************************************************)
(* Model of the drawbridge server entry point (src/main.rs): expansion of  *)
(* `@file` arguments, argument parsing, opening of the TLS material,       *)
(* construction of the TLS config and of the application, binding of the   *)
(* listener and the acceptor loop `incoming().for_each_concurrent(Some(1))`*)
(*                                                                         *)
(* Strings are sequences of symbols.  A symbol is one character ("@", "=", *)
(* "\n", "\r") or a word that no operation of the program looks into       *)
(* ("--store", "s1", ...).                                                 *)
(***************************************************************************)
EXTENDS Integers, Sequences, FiniteSets, TLC

\* ---------------------------------------------------------------- bounds
\* longest raw argument list of the exhaustively enumerated inputs
MaxArgs == 3
\* longest content of the exhaustively enumerated config file
MaxFileLen == 3
\* number of items the listener's incoming stream yields in a run
MaxItems == 3

\* ------------------------------------------------------------- constants
\* exit status of a process whose main returns Err
ExitFailure == 1
\* exit status of clap's Error::exit for a usage error
UsageCode == 2
\* exit status of clap's Error::exit for --help / --version
ExitSuccess == 0

None == <<>>
Some(v) == <<v>>

\* ------------------------------------------------------- sequence helpers
SeqsUpTo(S, n) == UNION {[1..k -> S] : k \in 0..n}

Last(s) == s[Len(s)]

\* ------------------------------------------------------------ str::lines
\* a line that ended in "\n" loses one "\r" before it
StripCR(line) ==
    IF line # <<>> /\ Last(line) = "\r" THEN SubSeq(line, 1, Len(line) - 1) ELSE line

RECURSIVE SplitLines(_, _)
SplitLines(s, cur) ==
    IF s = <<>> THEN (IF cur = <<>> THEN <<>> ELSE <<cur>>)
    ELSE IF Head(s) = "\n" THEN <<StripCR(cur)>> \o SplitLines(Tail(s), <<>>)
    ELSE SplitLines(Tail(s), Append(cur, Head(s)))

\* config.lines(): the lines of a text; a final line needs no terminator,
\* an empty text has no line
Lines(config) == SplitLines(config, <<>>)

\* arg.strip_prefix('@'): Some(rest) when the argument starts with '@'
strip_prefix(arg) ==
    IF arg # <<>> /\ Head(arg) = "@" THEN Some(Tail(arg)) ELSE None

\* ------------------------------------------------------------ file system
Missing == <<"<missing>">>

\* read_to_string(path) / File::open(path) succeed on the files that exist
Readable(files, path) == path \in DOMAIN files /\ files[path] # Missing

\* mutant: a line that is itself an indirection to a readable file is
\* replaced by the lines of that file
RECURSIVE NestedTokens(_, _)
NestedTokens(files, lines) ==
    IF lines = <<>> THEN <<>>
    ELSE (IF strip_prefix(Head(lines)) # None
             /\ Readable(files, strip_prefix(Head(lines))[1])
          THEN Lines(files[strip_prefix(Head(lines))[1]])
          ELSE <<Head(lines)>>) \o NestedTokens(files, Tail(lines))

ConfigTokens_nested(files, path) == NestedTokens(files, Lines(files[path]))

\* what one iteration of the expansion loop pushes, given the argument is
\* an indirection to a readable file
ConfigTokens(files, path) == Lines(files[path])

\* mutant: the tokens are inserted at the front
PushAll_front(processed, toks) == toks \o processed

\* processed_args after `toks` have been pushed
PushAll(processed, toks) == processed \o toks

\* ------------------------------------------------- Args (clap 3 derive)
\* the long flags #[clap(long)] derives from the fields of Args
LongOpts == {"--addr", "--store", "--cert", "--key", "--ca", "--oidc-label",
             "--oidc-issuer", "--oidc-client", "--oidc-secret"}

\* mutant: oidc_secret declared String instead of Option<String>
RequiredOpts_secret == {"--store", "--cert", "--key", "--ca", "--oidc-label",
                        "--oidc-issuer", "--oidc-client", "--oidc-secret"}

\* the fields that are neither Option<_> nor defaulted
RequiredOpts == {"--store", "--cert", "--key", "--ca", "--oidc-label",
                 "--oidc-issuer", "--oidc-client"}

\* flags clap generates for every command that has a version
HelpFlags == {"--help", "-h", "--version", "-V"}

\* the words of the model that begin with '-'
DashWords == LongOpts \cup HelpFlags \cup {"--bogus"}

\* mutant: the default address is the loopback address
DefaultAddr_loopback == <<"127.0.0.1:8080">>

\* default_value_t of Args::addr
DefaultAddr == <<"0.0.0.0:8080">>

\* the texts SocketAddr::from_str / Url::from_str accept
ValidAddrs == {DefaultAddr, <<"addr1">>, <<"addr2">>}
ValidUrls == {<<"iss">>}

LooksLikeFlag(tok) == tok # <<>> /\ Head(tok) \in DashWords

ParseErr(kind) == [kind |-> "error", error |-> kind, cfg |-> <<>>]
ParseHelp == [kind |-> "help", error |-> "DisplayHelp", cfg |-> <<>>]
ParseOk(cfg) == [kind |-> "ok", error |-> "", cfg |-> cfg]

\* The parsing pass over the tokens after the binary name.  Returns the
\* occurrences <<flag, value>> in order (value None when the flag was not
\* followed by a value), or stops at the first help/version flag or unknown
\* argument.
RECURSIVE ParseTokens(_, _)
ParseTokens(toks, occ) ==
    IF toks = <<>> THEN [kind |-> "parsed", error |-> "", occ |-> occ]
    ELSE LET t == Head(toks)
             rest == Tail(toks)
         IN  IF t = <<>> THEN [kind |-> "error", error |-> "UnknownArgument", occ |-> occ]
             ELSE IF t[1] \in HelpFlags
                  THEN IF Len(t) = 1
                       THEN [kind |-> "help", error |-> "DisplayHelp", occ |-> occ]
                       ELSE [kind |-> "error", error |-> "TooManyValues", occ |-> occ]
             ELSE IF t[1] \in LongOpts
                  THEN IF Len(t) >= 2
                       THEN IF t[2] = "="
                            THEN ParseTokens(rest,
                                     Append(occ, <<t[1], Some(SubSeq(t, 3, Len(t)))>>))
                            ELSE [kind |-> "error", error |-> "UnknownArgument", occ |-> occ]
                       ELSE IF rest # <<>> /\ ~LooksLikeFlag(Head(rest))
                            THEN ParseTokens(Tail(rest),
                                     Append(occ, <<t[1], Some(Head(rest))>>))
                            ELSE ParseTokens(rest, Append(occ, <<t[1], None>>))
             ELSE [kind |-> "error", error |-> "UnknownArgument", occ |-> occ]

Occurrences(occ, flag) == {k \in 1..Len(occ) : occ[k][1] = flag}

\* the value an argument that occurs exactly once was given
ValueOf(occ, flag) == occ[CHOOSE k \in Occurrences(occ, flag) : TRUE][2][1]

\* typed parse of a value (validator of the field's FromStr type)
ValidValue(flag, v) ==
    CASE flag = "--addr" -> v \in ValidAddrs
      [] flag = "--oidc-issuer" -> v \in ValidUrls
      [] OTHER -> TRUE

\* mutant: a repeated argument is accepted
MaxOccurrences_two(flag) == 1 + 1

\* how often an argument may occur: none of the fields is a Vec or has
\* multiple_occurrences, so clap 3 rejects a second occurrence
MaxOccurrences(flag) == 1

\* The validation pass: required arguments first, then every matched
\* argument's values and number of occurrences.
Validate(occ) ==
    IF \E f \in RequiredOpts : Occurrences(occ, f) = {}
        THEN ParseErr("MissingRequiredArgument")
    ELSE IF \E k \in 1..Len(occ) : occ[k][2] = None
        THEN ParseErr("EmptyValue")
    ELSE IF \E k \in 1..Len(occ) : ~ValidValue(occ[k][1], occ[k][2][1])
        THEN ParseErr("ValueValidation")
    ELSE IF \E f \in LongOpts : Cardinality(Occurrences(occ, f)) > MaxOccurrences(f)
        THEN ParseErr("UnexpectedMultipleUsage")
    ELSE ParseOk([addr |-> IF Occurrences(occ, "--addr") = {} THEN DefaultAddr
                           ELSE ValueOf(occ, "--addr"),
                  store |-> ValueOf(occ, "--store"),
                  cert |-> ValueOf(occ, "--cert"),
                  key |-> ValueOf(occ, "--key"),
                  ca |-> ValueOf(occ, "--ca"),
                  oidc_label |-> ValueOf(occ, "--oidc-label"),
                  oidc_issuer |-> ValueOf(occ, "--oidc-issuer"),
                  oidc_client |-> ValueOf(occ, "--oidc-client"),
                  oidc_secret |-> IF Occurrences(occ, "--oidc-secret") = {} THEN None
                                  ELSE Some(ValueOf(occ, "--oidc-secret"))])

\* Args::parse_from(processed_args): the first item is the binary name
parse_from(args) ==
    LET p == ParseTokens(IF args = <<>> THEN <<>> ELSE Tail(args), <<>>)
    IN  CASE p.kind = "help" -> ParseHelp
          [] p.kind = "error" -> ParseErr(p.error)
          [] OTHER -> Validate(p.occ)

\* ------------------------------------------------------------------ inputs
F1 == <<"f1">>
F2 == <<"f2">>
CertPath == <<"c1">>
KeyPath == <<"k1">>
CaPath == <<"a1">>
PemPaths == {CertPath, KeyPath, CaPath}
Pem == <<"pem">>

Opt(flag, v) == <<flag, "=", v>>

\* one --flag=value token for each required flag
RequiredToks ==
    << Opt("--store", "s1"), Opt("--cert", "c1"), Opt("--key", "k1"),
       Opt("--ca", "a1"), Opt("--oidc-label", "lbl"), Opt("--oidc-issuer", "iss"),
       Opt("--oidc-client", "cid") >>

Omit(toks, k) == SubSeq(toks, 1, k - 1) \o SubSeq(toks, k + 1, Len(toks))

\* tokens put before or after the required ones
Extras ==
    { << Opt("--oidc-secret", "sec") >>,
      << <<"--addr">>, <<"addr1">> >>,
      << Opt("--addr", "addr1"), Opt("--addr", "addr2") >>,
      << Opt("--store", "s2") >>,
      << <<"--help">> >>,
      << <<"--version">> >>,
      << <<"--bogus">> >> }

\* the flat argument lists a run is started with, before they are laid out
\* on the command line and in a config file
TokenLists ==
    {Omit(RequiredToks, k) : k \in 0..Len(RequiredToks)}
    \cup {e \o RequiredToks : e \in Extras}
    \cup {RequiredToks \o e : e \in Extras}
    \cup {Omit(RequiredToks, k) \o << <<"--help">> >> : k \in 1..Len(RequiredToks)}

\* the text of a config file that holds one token per line
RECURSIVE JoinLines(_)
JoinLines(toks) ==
    IF toks = <<>> THEN <<>> ELSE Head(toks) \o <<"\n">> \o JoinLines(Tail(toks))

Prog == <<"drawbridge">>
AtF1 == <<"@", "f1">>
AtF2 == <<"@", "f2">>

\* layouts of a token list: all on the command line; the first j tokens in
\* the config file and the rest after `@f1`; the first j tokens before `@f1`
\* and the rest in the config file
Layouts(toks) ==
    { [argv |-> <<Prog>> \o toks, f1 |-> Missing] }
    \cup { [argv |-> <<Prog, AtF1>> \o SubSeq(toks, j + 1, Len(toks)),
            f1 |-> JoinLines(SubSeq(toks, 1, j))] : j \in {1, Len(toks)} }
    \cup { [argv |-> <<Prog>> \o SubSeq(toks, 1, j) \o <<AtF1>>,
            f1 |-> JoinLines(SubSeq(toks, j + 1, Len(toks)))] : j \in {1, Len(toks) - 1} }

\* the file system of a run: the two config files and, of the three PEM
\* files, those in `pems`
FileSystem(f1, f2, pems) ==
    [p \in {F1, F2} \cup PemPaths |->
        IF p = F1 THEN f1 ELSE IF p = F2 THEN f2
        ELSE IF p \in pems THEN Pem ELSE Missing]

\* runs that start from a laid-out token list
ConfiguredRuns ==
    { [argv |-> l.argv, files |-> FileSystem(l.f1, Missing, pems)] :
        l \in UNION {Layouts(t) : t \in TokenLists}, pems \in SUBSET PemPaths }

\* raw arguments and config-file texts enumerated exhaustively
RawArgs == {Prog, AtF1, AtF2, <<"@">>}
FileSymbols == {"@", "f1", "\n"}
F2Texts == {Missing, <<>>, <<"y", "\r", "\n", "z">>}

ExpansionRuns ==
    { [argv |-> a, files |-> FileSystem(c1, c2, PemPaths)] :
        a \in SeqsUpTo(RawArgs, MaxArgs) \ {<<>>},
        c1 \in SeqsUpTo(FileSymbols, MaxFileLen) \cup {Missing},
        c2 \in F2Texts }

\* --------------------------------------------------------- acceptor loop
\* mutant: the limit of for_each_concurrent raised to two
ConcurrencyLimit_two == 1 + 1

\* for_each_concurrent(Some(1), ..): the limit of futures in flight
ConcurrencyLimit == 1

\* what TcpListener::incoming() can yield: Ok(stream) or Err(e), never the
\* end of the stream
IncomingItems == {"conn", "err"}

\* results of app.handle(stream)
HandleResults == {"ok", "err"}

\* mutant: the accept result is not checked before app.handle
InnerStep_unchecked(item) == "handle"

\* `stream.context(..)?` in the inner block: an accept error leaves the
\* block before app.handle is called
InnerStep(item) == IF item = "err" THEN "return_err" ELSE "handle"

\* mutant: the error of the inner block is returned with `?`
OnResult_propagate(res) == [log |-> res # "ok", fatal |-> res # "ok"]

\* mutant: the error of the inner block is dropped without a log line
OnResult_silent(res) == [log |-> FALSE, fatal |-> FALSE]

\* `if let Err(e) = .. { error!(..) }`: what the closure does with the
\* result of the inner block; log: an error line is written, fatal: the
\* error leaves the closure
OnResult(res) == [log |-> res # "ok", fatal |-> FALSE]

\* mutant: the error of a startup step is ignored
Try_ignore(ok, next) == next

\* the `?` operator of main: on Err return it, on Ok go on with `next`
Try(ok, next) == IF ok THEN next ELSE "exited"

\* ------------------------------------------------------------------ state
VARIABLES
    argv,            \* std::env::args()
    files,           \* the file system: path -> text, or Missing
    pc,              \* position of main
    i,               \* index of the argument the expansion loop is at
    processed_args,  \* main's processed_args
    cfg,             \* the destructured Args: None before parsing, Some(..) after
    opened,          \* the buffered readers opened so far, in order
    tls,             \* TlsConfig::read returned Ok
    app,             \* App::new returned Ok
    listener,        \* None, or Some(address) of the bound TcpListener
    steps,           \* the startup steps main has begun, in order
    failed,          \* the startup step that returned an error, or "none"
    exit_code,       \* None while running, Some(status) once exited
    err,             \* the message the process exited with
    produced,        \* the items incoming() has yielded, in order
    futures,         \* the closure futures in flight: [id, st]
    handled,         \* ids of the items app.handle was called with, in order
    events,          \* begin/end of each app.handle call, in order
    results,         \* <<id, result>> of each app.handle call that returned
    log              \* the lines written by debug! and error!

vars == <<argv, files, pc, i, processed_args, cfg, opened, tls, app, listener,
          steps, failed, exit_code, err, produced, futures, handled, events, results,
          log>>

startup == <<cfg, opened, tls, app, listener>>
loop == <<produced, futures, handled, events, results, log>>
input == <<argv, files>>

Init ==
    /\ \E run \in ConfiguredRuns \cup ExpansionRuns :
          /\ argv = run.argv
          /\ files = run.files
    /\ pc = "expand"
    /\ i = 1
    /\ processed_args = <<>>
    /\ cfg = None
    /\ opened = <<>>
    /\ tls = FALSE
    /\ app = FALSE
    /\ listener = None
    /\ steps = <<>>
    /\ failed = "none"
    /\ exit_code = None
    /\ err = ""
    /\ produced = <<>>
    /\ futures = {}
    /\ handled = <<>>
    /\ events = <<>>
    /\ results = <<>>
    /\ log = <<>>

\* a startup step begins
Begin(step) == steps' = IF step \in {steps[k] : k \in 1..Len(steps)} THEN steps
                        ELSE Append(steps, step)

\* a startup step returned: Ok leads to `next`, Err(msg) out of main
Return(step, ok, next, msg) ==
    /\ pc' = Try(ok, next)
    /\ failed' = IF ok THEN failed ELSE step
    /\ err' = IF ok THEN err ELSE msg
    /\ exit_code' = IF pc' = "exited" THEN Some(ExitFailure) ELSE exit_code

AfterArg == IF i + 1 > Len(argv) THEN "parse" ELSE "expand"

\* for arg in std::env::args(): None => processed_args.push(arg)
PushArg ==
    /\ pc = "expand"
    /\ i <= Len(argv)
    /\ strip_prefix(argv[i]) = None
    /\ Begin("expand")
    /\ processed_args' = PushAll(processed_args, <<argv[i]>>)
    /\ i' = i + 1
    /\ pc' = AfterArg
    /\ UNCHANGED <<input, startup, failed, exit_code, err, loop>>

\* Some(path) => read_to_string(path).context(..)?, push every line
ReadConfig ==
    /\ pc = "expand"
    /\ i <= Len(argv)
    /\ strip_prefix(argv[i]) # None
    /\ Begin("expand")
    /\ LET path == strip_prefix(argv[i])[1]
           ok == Readable(files, path)
       IN  /\ Return("expand", ok, AfterArg, "Failed to read config file")
           /\ processed_args' = IF ok THEN PushAll(processed_args, ConfigTokens(files, path))
                                ELSE processed_args
    /\ i' = i + 1
    /\ UNCHANGED <<input, startup, loop>>

\* let Args { .. } = Args::parse_from(processed_args): on a usage error or
\* a help/version flag clap prints and exits the process itself
ParseArgs ==
    /\ pc = "parse"
    /\ Begin("parse")
    /\ LET r == parse_from(processed_args)
       IN  /\ pc' = IF r.kind = "ok" THEN "open_cert" ELSE "exited"
           /\ cfg' = IF r.kind = "ok" THEN Some(r.cfg) ELSE cfg
           /\ failed' = IF r.kind = "error" THEN "parse" ELSE failed
           /\ err' = IF r.kind = "ok" THEN err ELSE r.error
           /\ exit_code' = CASE r.kind = "ok" -> exit_code
                             [] r.kind = "help" -> Some(ExitSuccess)
                             [] OTHER -> Some(UsageCode)
    /\ UNCHANGED <<input, i, processed_args, opened, tls, app, listener, loop>>

\* the context message of each open_buffered call
CertMsg == "Failed to open server certificate file"
KeyMsg == "Failed to open server key file"
CaMsg == "Failed to open CA certificate file"

\* mutant: the certificate's open reports the key's message
OpenMsg_swapped(step) ==
    CASE step = "cert" -> KeyMsg
      [] step = "key" -> CertMsg
      [] OTHER -> CaMsg

OpenMsg(step) ==
    CASE step = "cert" -> CertMsg
      [] step = "key" -> KeyMsg
      [] OTHER -> CaMsg

\* open_buffered(p).context(msg)?
OpenStep(at, step, path, next) ==
    /\ pc = at
    /\ Begin(step)
    /\ LET ok == Readable(files, path)
       IN  /\ Return(step, ok, next, OpenMsg(step))
           /\ opened' = IF ok THEN Append(opened, step) ELSE opened
    /\ UNCHANGED <<input, i, processed_args, cfg, tls, app, listener, loop>>

OpenCert == /\ cfg # None
            /\ OpenStep("open_cert", "cert", cfg[1].cert, "open_key")

\* mutant: the key reader is opened from the certificate path
OpenKey_certpath == /\ cfg # None
                    /\ OpenStep("open_key", "key", cfg[1].cert, "open_ca")

OpenKey == /\ cfg # None
           /\ OpenStep("open_key", "key", cfg[1].key, "open_ca")

OpenCa == /\ cfg # None
          /\ OpenStep("open_ca", "ca", cfg[1].ca, "tls")

\* TlsConfig::read(cert, key, ca).context(..)?: may reject the material
TlsRead ==
    /\ pc = "tls"
    /\ Begin("tls")
    /\ \E ok \in BOOLEAN :
          /\ Return("tls", ok, "app", "Failed to construct server TLS config")
          /\ tls' = ok
    /\ UNCHANGED <<input, i, processed_args, cfg, opened, app, listener, loop>>

\* App::new(store, tls, OidcConfig { .. }).await.context(..)?
AppNew ==
    /\ pc = "app"
    /\ Begin("app")
    /\ \E ok \in BOOLEAN :
          /\ Return("app", ok, "bind", "Failed to build app")
          /\ app' = ok
    /\ UNCHANGED <<input, i, processed_args, cfg, opened, tls, listener, loop>>

\* TcpListener::bind(addr).await.with_context(..)?
Bind ==
    /\ pc = "bind"
    /\ Begin("bind")
    /\ \E ok \in BOOLEAN :
          /\ Return("bind", ok, "loop", "Failed to bind to")
          /\ listener' = IF ok THEN Some(cfg[1].addr) ELSE listener
    /\ UNCHANGED <<input, i, processed_args, cfg, opened, tls, app, loop>>

\* mutant: the stream is polled whatever the number of futures in flight
PollIncoming_eager ==
    /\ pc = "loop"
    /\ Len(produced) < MaxItems
    /\ \E item \in IncomingItems :
          /\ produced' = Append(produced, item)
          /\ futures' = futures \cup {[id |-> Len(produced) + 1, st |-> "created"]}
    /\ UNCHANGED <<input, pc, i, processed_args, startup, steps, failed, exit_code,
                   err, handled, events, results, log>>

\* for_each_concurrent polls the stream only while fewer than the limit of
\* futures are in flight; an item it gets becomes a new closure future
PollIncoming ==
    /\ pc = "loop"
    /\ ConcurrencyLimit > Cardinality(futures)
    /\ Len(produced) < MaxItems
    /\ \E item \in IncomingItems :
          /\ produced' = Append(produced, item)
          /\ futures' = futures \cup {[id |-> Len(produced) + 1, st |-> "created"]}
    /\ UNCHANGED <<input, pc, i, processed_args, startup, steps, failed, exit_code,
                   err, handled, events, results, log>>

\* the closure has the result of its inner block
Finish(f, res, lines) ==
    /\ futures' = futures \ {f}
    /\ log' = log \o lines
               \o (IF OnResult(res).log THEN << <<"error", f.id>> >> ELSE <<>>)
    /\ pc' = IF OnResult(res).fatal THEN "exited" ELSE pc
    /\ exit_code' = IF OnResult(res).fatal THEN Some(ExitFailure) ELSE exit_code

\* first poll of a closure future: an accept error ends it, a stream is
\* logged and handed to app.handle
StartItem ==
    /\ pc = "loop"
    /\ \E f \in futures :
          /\ f.st = "created"
          /\ IF InnerStep(produced[f.id]) = "return_err"
             THEN /\ Finish(f, "err", <<>>)
                  /\ UNCHANGED <<handled, events>>
             ELSE /\ futures' = (futures \ {f}) \cup {[f EXCEPT !.st = "handling"]}
                  /\ handled' = Append(handled, f.id)
                  /\ events' = Append(events, <<"begin", f.id>>)
                  /\ log' = Append(log, <<"debug", f.id>>)
                  /\ UNCHANGED <<pc, exit_code>>
    /\ UNCHANGED <<input, i, processed_args, startup, steps, failed, err, produced,
                   results>>

\* mutant: the call is also given up after a timeout, with an error line
\* and no result of the handler
HandlerReturn_timeout ==
    /\ pc = "loop"
    /\ \E f \in futures :
          /\ f.st = "handling"
          /\ \/ \E res \in HandleResults :
                   /\ events' = Append(events, <<"end", f.id>>)
                   /\ results' = Append(results, <<f.id, res>>)
                   /\ Finish(f, res, <<>>)
             \/ /\ Finish(f, "err", <<>>)
                /\ UNCHANGED <<events, results>>
    /\ UNCHANGED <<input, i, processed_args, startup, steps, failed, err, produced,
                   handled>>

\* app.handle(stream).await returns
HandlerReturn ==
    /\ pc = "loop"
    /\ \E f \in futures, res \in HandleResults :
          /\ f.st = "handling"
          /\ events' = Append(events, <<"end", f.id>>)
          /\ results' = Append(results, <<f.id, res>>)
          /\ Finish(f, res, <<>>)
    /\ UNCHANGED <<input, i, processed_args, startup, steps, failed, err, produced,
                   handled>>

Next ==
    \/ PushArg
    \/ ReadConfig
    \/ ParseArgs
    \/ OpenCert
    \/ OpenKey
    \/ OpenCa
    \/ TlsRead
    \/ AppNew
    \/ Bind
    \/ PollIncoming
    \/ StartItem
    \/ HandlerReturn

Spec == Init /\ [][Next]_vars

\* ================================================================ claims
Range(s) == {s[k] : k \in 1..Len(s)}
IsPrefix(s, t) == Len(s) <= Len(t) /\ SubSeq(t, 1, Len(s)) = s

\* the handler invocations in flight
InFlight == {f \in futures : f.st = "handling"}

\* the ids of the connections among the first n items of the stream, in order
RECURSIVE ConnIds(_)
ConnIds(n) ==
    IF n = 0 THEN <<>>
    ELSE ConnIds(n - 1) \o (IF produced[n] = "conn" THEN <<n>> ELSE <<>>)

HandlerFailed(id) == <<id, "err">> \in Range(results)

ErrorLines(id) == {k \in 1..Len(log) : log[k] = <<"error", id>>}

AcceptFailed(id) == id \in 1..Len(produced) /\ produced[id] = "err"

Completed(id) == id \in 1..Len(produced) /\ \A f \in futures : f.id # id

\* C1: at most one invocation of app.handle is in flight in every reachable
\* state, and an invocation begins only when every earlier invocation has
\* ended (with Ok or with Err).
C1_OneHandlerInFlight ==
    /\ Cardinality(InFlight) <= 1
    /\ \A k \in 1..Len(events) :
          events[k][1] = "begin" =>
              \A j \in 1..(k - 1) :
                  events[j][1] = "begin" =>
                      \E e \in (j + 1)..(k - 1) : events[e] = <<"end", events[j][2]>>

\* a second invocation has begun after the first one ended
C1_Witness ==
    /\ Len(handled) >= 2
    /\ Cardinality(InFlight) = 1
    /\ <<"end", handled[1]>> \in Range(events)

\* C2: the handler is invoked for the accepted connections in the order in
\* which the listener produced them: the sequence of invocations is a prefix
\* of the sequence of produced connections, and the begin/end events of two
\* invocations never interleave.
C2_AcceptanceOrder ==
    /\ IsPrefix(handled, ConnIds(Len(produced)))
    /\ \A k \in 1..Len(events) :
          events[k] = <<(IF k % 2 = 1 THEN "begin" ELSE "end"), handled[(k + 1) \div 2]>>

\* two connections with an accept error between them, both handled in order
C2_Witness ==
    /\ produced = <<"conn", "err", "conn">>
    /\ handled = <<1, 3>>
    /\ Len(events) = 4

\* C3: a handler error is logged and suppressed: after it the process has
\* not exited and is still in the loop, the error has exactly one error
\* line, and the loop goes on: with no future in flight the stream is polled
\* again and every item it yields is started.
C3_HandlerErrorSuppressed ==
    /\ \A id \in 1..Len(produced) :
          HandlerFailed(id) =>
              /\ Cardinality(ErrorLines(id)) = 1
              /\ Completed(id)
              /\ pc = "loop"
              /\ exit_code = None
              /\ failed = "none"
    /\ \A id \in 1..Len(produced) :
          (produced[id] = "conn" /\ ~HandlerFailed(id)) => ErrorLines(id) = {}
    /\ (\E id \in 1..Len(produced) : HandlerFailed(id)) =>
          /\ (futures = {} /\ Len(produced) < MaxItems) => ENABLED PollIncoming
          /\ (\E f \in futures : f.st = "created") => ENABLED StartItem
          /\ (\E f \in futures : f.st = "handling") => ENABLED HandlerReturn

\* a connection is being handled after the handler failed for an earlier one
C3_Witness ==
    \E id \in 1..Len(produced) :
        /\ HandlerFailed(id)
        /\ \E f \in InFlight : f.id > id

\* C4: an accept error is logged, the handler is never invoked for that
\* item, and neither the loop nor the process ends.
C4_AcceptErrorSkipped ==
    \A id \in 1..Len(produced) :
        AcceptFailed(id) =>
            /\ id \notin Range(handled)
            /\ \A k \in 1..Len(events) : events[k][2] # id
            /\ <<"debug", id>> \notin Range(log)
            /\ Completed(id) =>
                  Cardinality(ErrorLines(id)) = 1
            /\ pc = "loop"
            /\ exit_code = None
            /\ (Completed(id) /\ futures = {} /\ Len(produced) < MaxItems)
                  => ENABLED PollIncoming

\* an accept error was logged and the next item, a connection, is handled
C4_Witness ==
    \E id \in 1..Len(produced) :
        /\ AcceptFailed(id)
        /\ Completed(id)
        /\ <<"error", id>> \in Range(log)
        /\ (id + 1) \in Range(handled)

\* C5: once the listener is bound the process never exits by its own
\* action: whatever the stream yields and the handler returns, main stays in
\* the loop and no exit status is set.
C5_LoopNeverExits ==
    (listener # None \/ produced # <<>>) =>
        /\ pc = "loop"
        /\ exit_code = None
        /\ failed = "none"

\* the loop has gone through an accept error, a handler error and a
\* handler success
C5_Witness ==
    /\ listener # None
    /\ futures = {}
    /\ \E a, b, c \in 1..Len(produced) :
          /\ AcceptFailed(a)
          /\ HandlerFailed(b)
          /\ produced[c] = "conn" /\ Completed(c) /\ <<"error", c>> \notin Range(log)

\* the startup steps of main, in program order
StartupSteps == <<"expand", "parse", "cert", "key", "ca", "tls", "app", "bind">>

\* C6: when the configured certificate file cannot be opened, startup fails
\* with the error "Failed to open server certificate file" and a non-zero
\* exit status; no listener is bound at any point of the run, and the key
\* file, the CA file, the TLS builder and the app constructor are not
\* reached.
C6_MissingCertFailsBeforeBind ==
    (cfg # None /\ ~Readable(files, cfg[1].cert)) =>
        /\ listener = None
        /\ opened = <<>>
        /\ ~tls
        /\ ~app
        /\ produced = <<>>
        /\ Range(steps) \cap {"key", "ca", "tls", "app", "bind"} = {}
        /\ pc \in {"open_cert", "exited"}
        /\ pc = "exited" =>
              /\ failed = "cert"
              /\ err = "Failed to open server certificate file"
              /\ exit_code \notin {None, Some(ExitSuccess)}
              /\ steps = <<"expand", "parse", "cert">>

\* the open of an unreadable certificate has failed while the key and the
\* CA file are readable
C6_Witness ==
    /\ cfg # None
    /\ ~Readable(files, cfg[1].cert)
    /\ Readable(files, cfg[1].key)
    /\ Readable(files, cfg[1].ca)
    /\ pc = "exited"
    /\ failed = "cert"

\* C7: startup is all-or-nothing.  The steps run in program order; when one
\* fails the process has exited with a non-zero status, the failed step is
\* the last one begun, and no connection is accepted or handled; the loop is
\* entered, and a connection accepted, only after every step succeeded.
C7_StartupAllOrNothing ==
    /\ IsPrefix(steps, StartupSteps)
    /\ failed # "none" =>
          /\ pc = "exited"
          /\ exit_code \in {Some(ExitFailure), Some(UsageCode)}
          /\ Last(steps) = failed
          /\ listener = None
          /\ produced = <<>> /\ handled = <<>> /\ futures = {}
    /\ (pc = "loop" \/ produced # <<>> \/ listener # None) =>
          /\ failed = "none"
          /\ steps = StartupSteps
          /\ cfg # None
          /\ opened = <<"cert", "key", "ca">>
          /\ tls /\ app
          /\ listener = Some(cfg[1].addr)
    /\ (pc = "exited" /\ failed = "none") => exit_code = Some(ExitSuccess)
    /\ pc = "exited" => exit_code # None

\* the app constructor failed after the TLS config was built
C7_Witness ==
    /\ failed = "app"
    /\ pc = "exited"
    /\ tls
    /\ opened = <<"cert", "key", "ca">>

\* the arguments have been parsed
Parsed == "parse" \in Range(steps) /\ pc # "parse"

\* the tokens of an argument list (after the binary name) that are flag f
FlagTokens(args, f) == {k \in 2..Len(args) : args[k] # <<>> /\ args[k][1] = f}

HasHelpFlag(args) ==
    \E k \in 2..Len(args) : args[k] \in {<<"--help">>, <<"-h">>, <<"--version">>, <<"-V">>}

\* the flags the specification lists as required
SpecRequired == {"--store", "--cert", "--key", "--ca", "--oidc-label",
                 "--oidc-issuer", "--oidc-client"}

OmittedRequired(args) == {f \in SpecRequired : FlagTokens(args, f) = {}}

\* every token after the binary name is --flag=value with a flag of `flags`
\* and a value its type accepts, and every required flag is there
WellFormed(args, flags) ==
    /\ \A k \in 2..Len(args) :
          /\ Len(args[k]) = 3
          /\ args[k][1] \in flags
          /\ args[k][2] = "="
          /\ args[k][1] = "--addr" => <<args[k][3]>> \in ValidAddrs
          /\ args[k][1] = "--oidc-issuer" => <<args[k][3]>> \in ValidUrls
    /\ OmittedRequired(args) = {}

NothingDownstream ==
    /\ cfg = None
    /\ pc = "exited"
    /\ opened = <<>>
    /\ ~tls
    /\ ~app
    /\ listener = None
    /\ produced = <<>>
    /\ steps = <<"expand", "parse">>

\* C8 as stated: whenever a required flag is missing from the expanded
\* list, parsing fails with a non-zero exit status and nothing is passed
\* downstream; omitting only --oidc-secret is no parse failure.
C8_AsStated ==
    Parsed =>
        /\ OmittedRequired(processed_args) # {} =>
              /\ failed = "parse"
              /\ exit_code \notin {None, Some(ExitSuccess)}
              /\ NothingDownstream
        /\ (WellFormed(processed_args, SpecRequired \cup {"--addr"})
              /\ \A f \in SpecRequired \cup {"--addr"} :
                    Cardinality(FlagTokens(processed_args, f)) <= 1)
              => failed # "parse"

\* C8 (amended): whenever a required flag is missing from the expanded
\* list, the process exits during parsing and nothing is passed downstream
\* (no file opened, no TLS config, no app, no socket); the exit is a parse
\* failure with non-zero status unless the list holds a help or version
\* flag.  Omitting only --oidc-secret is no parse failure and leaves the
\* secret None.
C8_MissingRequiredFlag ==
    Parsed =>
        /\ OmittedRequired(processed_args) # {} =>
              /\ NothingDownstream
              /\ exit_code # None
              /\ ~HasHelpFlag(processed_args) =>
                    /\ failed = "parse"
                    /\ exit_code = Some(UsageCode)
        /\ (WellFormed(processed_args, SpecRequired \cup {"--addr"})
              /\ \A f \in SpecRequired \cup {"--addr"} :
                    Cardinality(FlagTokens(processed_args, f)) <= 1)
              => /\ failed # "parse"
                 /\ cfg # None
                 /\ cfg[1].oidc_secret = None

\* exactly one required flag is missing, no help flag is given, and parsing
\* has failed for that reason
C8_Witness ==
    /\ Parsed
    /\ Cardinality(OmittedRequired(processed_args)) = 1
    /\ ~HasHelpFlag(processed_args)
    /\ Len(processed_args) = Cardinality(SpecRequired)
    /\ err = "MissingRequiredArgument"
    /\ exit_code = Some(UsageCode)

\* the lines of a text, by position: line n lies between the (n-1)th and
\* the nth line feed
LineFeeds(c) == {k \in 1..Len(c) : c[k] = "\n"}
LineCount(c) ==
    Cardinality(LineFeeds(c)) + (IF c # <<>> /\ c[Len(c)] # "\n" THEN 1 ELSE 0)
NthLineFeed(c, n) ==
    CHOOSE q \in LineFeeds(c) : Cardinality({r \in LineFeeds(c) : r < q}) = n - 1
LineAt(c, n) ==
    LET from == IF n = 1 THEN 1 ELSE NthLineFeed(c, n - 1) + 1
        ended == n <= Cardinality(LineFeeds(c))
        to == IF ended THEN NthLineFeed(c, n) - 1 ELSE Len(c)
    IN  IF ended /\ to >= from /\ c[to] = "\r" THEN SubSeq(c, from, to - 1)
        ELSE SubSeq(c, from, to)
FileLines(c) == [n \in 1..LineCount(c) |-> LineAt(c, n)]

IsIndirection(arg) == arg # <<>> /\ arg[1] = "@"
ReferencedFile(arg) == SubSeq(arg, 2, Len(arg))

\* what the first k raw arguments expand to
RECURSIVE Expansion(_)
Expansion(k) ==
    IF k = 0 THEN <<>>
    ELSE Expansion(k - 1) \o (IF IsIndirection(argv[k])
                              THEN FileLines(files[ReferencedFile(argv[k])])
                              ELSE <<argv[k]>>)

RECURSIVE ExpandedLength(_)
ExpandedLength(k) ==
    IF k = 0 THEN 0
    ELSE ExpandedLength(k - 1) + (IF IsIndirection(argv[k])
                                  THEN LineCount(files[ReferencedFile(argv[k])])
                                  ELSE 1)

ExpansionDone == pc # "expand" /\ failed # "expand"

\* C9: when the expansion has read every referenced file, the expanded list
\* is the raw list with every '@' argument replaced, in place, by the lines
\* of its file in file order and every other argument unchanged; its length
\* is the number of plain arguments plus the line counts of the referenced
\* files (a file of 0 lines contributes nothing).  While the loop runs the
\* list is the expansion of the arguments visited so far.
C9_ConfigFileExpansion ==
    /\ (pc = "expand" /\ failed = "none") => processed_args = Expansion(i - 1)
    /\ ExpansionDone =>
          /\ \A k \in 1..Len(argv) :
                IsIndirection(argv[k]) => Readable(files, ReferencedFile(argv[k]))
          /\ processed_args = Expansion(Len(argv))
          /\ Len(processed_args) = ExpandedLength(Len(argv))

\* a file of two or more lines was spliced between two plain arguments
C9_Witness ==
    /\ ExpansionDone
    /\ \E k \in 2..(Len(argv) - 1) :
          /\ ~IsIndirection(argv[k - 1])
          /\ IsIndirection(argv[k])
          /\ ~IsIndirection(argv[k + 1])
          /\ LineCount(files[ReferencedFile(argv[k])]) >= 2
          /\ Len(processed_args) >= 4

Duplicated(args) == {f \in LongOpts : Cardinality(FlagTokens(args, f)) > 1}

LastValue(args, f) ==
    LET last == CHOOSE k \in FlagTokens(args, f) : \A j \in FlagTokens(args, f) : j <= k
    IN  SubSeq(args[last], 3, Len(args[last]))

\* C10 as stated: when a single-valued option occurs more than once in an
\* otherwise complete argument list, startup proceeds and the configuration
\* holds the value of the last occurrence.
C10_AsStated ==
    (Parsed /\ Duplicated(processed_args) # {} /\ WellFormed(processed_args, LongOpts)) =>
        /\ cfg # None
        /\ "--store" \in Duplicated(processed_args) =>
              cfg[1].store = LastValue(processed_args, "--store")
        /\ "--addr" \in Duplicated(processed_args) =>
              cfg[1].addr = LastValue(processed_args, "--addr")

\* C10 (amended): when the same option occurs more than once in the
\* expanded list, on the command line, in a config file or one in each,
\* startup does not proceed: the process exits during parsing, no value of
\* the option (first or last) reaches a configuration, no file is opened and
\* no socket is bound; the exit is a usage error with non-zero status unless
\* the list holds a help or version flag.
C10_RepeatedOptionRejected ==
    (Parsed /\ Duplicated(processed_args) # {}) =>
        /\ NothingDownstream
        /\ exit_code # None
        /\ ~HasHelpFlag(processed_args) =>
              /\ failed = "parse"
              /\ exit_code = Some(UsageCode)

\* --store is given once in the config file and once on the command line of
\* an otherwise complete list, and parsing has rejected the repetition
C10_Witness ==
    /\ Parsed
    /\ WellFormed(processed_args, LongOpts)
    /\ Duplicated(processed_args) = {"--store"}
    /\ Cardinality(FlagTokens(argv, "--store")) = 1
    /\ err = "UnexpectedMultipleUsage"
    /\ exit_code = Some(UsageCode)

\* the value the only --addr token of an argument list gives: the text after
\* '=' or, without '=', the next token
GivenAddr(args) ==
    LET k == CHOOSE j \in FlagTokens(args, "--addr") : TRUE
    IN  IF Len(args[k]) >= 2 /\ args[k][2] = "="
        THEN SubSeq(args[k], 3, Len(args[k]))
        ELSE args[k + 1]

\* C11: when parsing succeeded, the address of the configuration, and the
\* address the listener is bound to, is exactly 0.0.0.0:8080 if --addr
\* appears nowhere in the expanded list, and exactly the given address if
\* --addr is given with a parseable socket address.
C11_BindAddress ==
    LET expected == IF FlagTokens(processed_args, "--addr") = {}
                    THEN <<"0.0.0.0:8080">>
                    ELSE GivenAddr(processed_args)
    IN  /\ cfg # None => cfg[1].addr = expected
        /\ listener # None => listener = Some(expected)

\* the listener is bound to the default address: --addr is neither on the
\* command line nor in the config file the run reads
C11_Witness ==
    /\ listener = Some(<<"0.0.0.0:8080">>)
    /\ FlagTokens(processed_args, "--addr") = {}
    /\ \E k \in 1..Len(argv) : IsIndirection(argv[k])

\* C12: the acceptor has no timeout and no cancellation.  While a handler
\* invocation is in flight no step dispatches another connection or takes
\* another item from the stream, and the only step that ends the invocation
\* is the handler's own return, which records its result; so a handler that
\* never returns keeps every later connection from the handler for ever.
C12_HungHandlerStallsLoop ==
    [][InFlight # {} =>
          /\ handled' = handled
          /\ produced' = produced
          /\ \/ InFlight' = InFlight
             \/ /\ InFlight' = {}
                /\ futures' = {}
                /\ \E f \in InFlight, res \in {"ok", "err"} :
                      results' = Append(results, <<f.id, res>>)]_vars

\* the first connection's handler has not returned, the stream could yield
\* more, and the only enabled step is the handler's return
C12_Witness ==
    /\ handled = <<1>>
    /\ InFlight # {}
    /\ Len(produced) < MaxItems
    /\ ~ENABLED PollIncoming
    /\ ~ENABLED StartItem
    /\ ENABLED HandlerReturn

\* the TLS material in the order the specification gives, with the path of
\* each file and the message of its failure
TlsMaterial == <<"cert", "key", "ca">>
MaterialPath(m) ==
    CASE m = "cert" -> cfg[1].cert
      [] m = "key" -> cfg[1].key
      [] OTHER -> cfg[1].ca
MaterialMessage(m) ==
    CASE m = "cert" -> "Failed to open server certificate file"
      [] m = "key" -> "Failed to open server key file"
      [] OTHER -> "Failed to open CA certificate file"

Unreadable == {k \in 1..Len(TlsMaterial) : ~Readable(files, MaterialPath(TlsMaterial[k]))}

\* C13: the certificate, the key and the CA file are opened in this order,
\* each with its own message.  When some of them are unreadable and the
\* opening has gone that far, the error names the first unreadable file in
\* the order, exactly the files before it were opened and none after it;
\* the TLS config builder is invoked only when all three were opened.
C13_TlsMaterialOrder ==
    /\ IsPrefix(opened, TlsMaterial)
    /\ \A m, n \in Range(TlsMaterial) : m # n => MaterialMessage(m) # MaterialMessage(n)
    /\ \A k \in 1..Len(TlsMaterial) :
          failed = TlsMaterial[k] =>
              /\ k \in Unreadable
              /\ \A j \in Unreadable : k <= j
              /\ err = MaterialMessage(TlsMaterial[k])
              /\ opened = SubSeq(TlsMaterial, 1, k - 1)
              /\ Range(steps) \cap ({TlsMaterial[j] : j \in (k + 1)..Len(TlsMaterial)}
                                    \cup {"tls", "app", "bind"}) = {}
              /\ ~tls
    /\ (cfg # None /\ Unreadable # {} /\ pc \notin {"open_cert", "open_key", "open_ca"}) =>
          /\ pc = "exited"
          /\ failed \in Range(TlsMaterial)
    /\ "tls" \in Range(steps) => (opened = TlsMaterial /\ Unreadable = {})

\* the key and the CA file are both unreadable, the certificate is not: the
\* run has ended at the key
C13_Witness ==
    /\ cfg # None
    /\ Unreadable = {2, 3}
    /\ failed = "key"
    /\ opened = <<"cert">>
    /\ err = "Failed to open server key file"

\* the lines of the files the first k raw arguments refer to that begin
\* with '@'
RECURSIVE IndirectionLines(_)
IndirectionLines(k) ==
    IF k = 0 THEN 0
    ELSE IndirectionLines(k - 1)
         + (IF IsIndirection(argv[k])
            THEN LET c == files[ReferencedFile(argv[k])]
                 IN  Cardinality({n \in 1..LineCount(c) : IsIndirection(LineAt(c, n))})
            ELSE 0)

\* C14: the expansion is one pass over the raw arguments, the first one
\* included.  The loop visits each raw argument once and stops after the
\* last; a line of a config file that begins with '@' is pushed verbatim, at
\* its place, and its file is not read, so the tokens of the list that
\* begin with '@' are exactly such lines (also when a file refers to
\* itself); a raw first argument that begins with '@' is replaced by the
\* lines of its file like any other.
C14_SinglePassExpansion ==
    /\ i \in 1..(Len(argv) + 1)
    /\ pc = "expand" => i <= Len(argv)
    /\ (pc # "expand" /\ failed # "expand") => i = Len(argv) + 1
    /\ failed # "expand" =>
          /\ Len(processed_args) = ExpandedLength(i - 1)
          /\ \A k \in 1..(i - 1) :
                IsIndirection(argv[k]) =>
                    LET c == files[ReferencedFile(argv[k])]
                    IN  \A n \in 1..LineCount(c) :
                            processed_args[ExpandedLength(k - 1) + n] = LineAt(c, n)
          /\ Cardinality({k \in 1..Len(processed_args) : IsIndirection(processed_args[k])})
                = IndirectionLines(i - 1)
          /\ (i > 1 /\ IsIndirection(argv[1])) =>
                SubSeq(processed_args, 1, ExpandedLength(1))
                    = FileLines(files[ReferencedFile(argv[1])])

\* the raw first argument is `@f1`, the file f1 holds the line `@f1`, and
\* the expansion has ended with that line in the list
C14_Witness ==
    /\ ExpansionDone
    /\ argv[1] = <<"@", "f1">>
    /\ <<"@", "f1">> \in Range(FileLines(files[<<"f1">>]))
    /\ <<"@", "f1">> \in Range(processed_args)
    /\ Len(processed_args) = ExpandedLength(Len(argv))

\* the items the loop has taken from the stream and not finished with
Unfinished == {id \in 1..Len(produced) : ~Completed(id)}

\* C15: the loop holds at most one item taken from the stream and not yet
\* finished, and it is the last one taken; while an item is unfinished (its
\* handler in flight, or its accept error not yet logged) the stream is not
\* polled, so the next item is taken only after the handling of the current
\* one has completed.
C15_Backpressure ==
    /\ Cardinality(Unfinished) <= 1
    /\ Unfinished \subseteq {Len(produced)}
    /\ Cardinality(futures) <= 1
    /\ Unfinished # {} => ~ENABLED PollIncoming
    /\ \A id \in 1..Len(produced) :
          /\ (produced[id] = "conn" /\ Completed(id)) =>
                \E res \in {"ok", "err"} : <<id, res>> \in Range(results)
          /\ (produced[id] = "err" /\ Completed(id)) => <<"error", id>> \in Range(log)

\* the second item, an accept error, is taken and not yet logged: the stream
\* could yield more but is not polled
C15_Witness ==
    /\ Len(produced) = 2
    /\ produced[2] = "err"
    /\ Unfinished = {2}
    /\ <<"error", 2>> \notin Range(log)
    /\ Len(produced) < MaxItems
    /\ ~ENABLED PollIncoming

====
